---- MODULE Spec2Model ----
(***************************************************************************)
(* Model of src/1_geometry/geometry_functions.py:                          *)
(*   create_wiggly_line(p0, p1, n, amp)        lines 5-49                  *)
(*   total_bearing_change_planar(gdf, geom_col) lines 51-116               *)
(* Angles are whole degrees (the vertices are drawn from the corners of    *)
(* the unit square, so every segment bearing is a multiple of 45 and is    *)
(* exact).  Array positions are 1-based here, 0-based in the source.       *)
(***************************************************************************)
EXTENDS Integers, Sequences, FiniteSets

VARIABLES
    gdf,      \* the geometry column: a sequence of lines, a line a sequence of <<x, y>>
    index,    \* gdf.index: one identifier per row
    out,      \* what total_bearing_change_planar returned or raised
    pc,       \* "call" before the function ran, "done" after
    p0, p1,   \* create_wiggly_line: the two endpoints
    n, amp,   \* create_wiggly_line: number of samples, amplitude
    ts,       \* create_wiggly_line: the local t (np.linspace(0, 1, n))
    line,     \* what create_wiggly_line returned or raised
    b0in, b1in, \* the turn formula: the two bearings
    turn      \* the turn formula: its result

vars == <<gdf, index, out, pc, p0, p1, n, amp, ts, line, b0in, b1in, turn>>

\* ---------------------------------------------------------------- bounds
MaxLines == 2
MaxVerts == 4
MaxN == 5
MaxAmp == 2

\* ---------------------------------------------------------------- helpers
Abs(a) == IF a < 0 THEN -a ELSE a
Min(a, b) == IF a <= b THEN a ELSE b

RECURSIVE SumSeq(_)
SumSeq(s) == IF s = <<>> THEN 0 ELSE Head(s) + SumSeq(Tail(s))

\* s[:-1]
Front(s) == IF Len(s) = 0 THEN <<>> ELSE SubSeq(s, 1, Len(s) - 1)
\* s[1:]
Rest(s) == IF Len(s) = 0 THEN <<>> ELSE SubSeq(s, 2, Len(s))

\* s[mask]: numpy boolean-mask indexing
RECURSIVE MaskFrom(_, _, _)
MaskFrom(s, mask, k) ==
    IF k > Len(s) THEN <<>>
    ELSE IF mask[k] THEN <<s[k]>> \o MaskFrom(s, mask, k + 1)
    ELSE MaskFrom(s, mask, k + 1)
Masked(s, mask) == MaskFrom(s, mask, 1)

\* np.any(mask)
NpAny(mask) == {k \in 1..Len(mask) : mask[k]} # {}

\* The vertices lines are drawn from: the corners of the unit square.
Pts == {<<x, y>> : x \in 0..1, y \in 0..1}

\* ------------------------------------------- total_bearing_change_planar

\* shapely.get_coordinates(geoms, return_index=True): every vertex of every
\* geometry in order, and for each vertex the position of its geometry.
RECURSIVE CoordsFrom(_, _)
CoordsFrom(g, i) ==
    IF i > Len(g) THEN <<>> ELSE g[i] \o CoordsFrom(g, i + 1)
RECURSIVE ParentFrom(_, _)
ParentFrom(g, i) ==
    IF i > Len(g) THEN <<>>
    ELSE [k \in 1..Len(g[i]) |-> i] \o ParentFrom(g, i + 1)
GetCoordinates(g) == [coords |-> CoordsFrom(g, 1), parent_ix |-> ParentFrom(g, 1)]

\* Mutant of SameGeomPair: every consecutive vertex pair kept, also across lines.
SameGeomPairAll(parent_ix) ==
    [k \in 1..(Len(parent_ix) - 1) |-> TRUE]

\* parent_ix[:-1] == parent_ix[1:]
SameGeomPair(parent_ix) ==
    [k \in 1..(Len(parent_ix) - 1) |-> parent_ix[k] = parent_ix[k + 1]]

\* dx = c1[:, 0] - c0[:, 0]; dy = c1[:, 1] - c0[:, 1]
Dx(c0, c1) == [k \in 1..Len(c0) |-> c1[k][1] - c0[k][1]]
Dy(c0, c1) == [k \in 1..Len(c0) |-> c1[k][2] - c0[k][2]]

\* Mutant of Nz: zero-length segments kept.
NzAll(dx, dy) == [k \in 1..Len(dx) |-> TRUE]

\* nz = (dx != 0) | (dy != 0)
Nz(dx, dy) == [k \in 1..Len(dx) |-> (dx[k] # 0) \/ (dy[k] # 0)]

\* Mutant of Atan2Deg: the arguments in the order arctan2(dy, dx), the angle
\* counter-clockwise from East.
Atan2DegFromEast(a, b) ==
    CASE b = 0 /\ a >= 0 -> 0
      [] b = 0 /\ a < 0 -> 180
      [] a = 0 /\ b > 0 -> 90
      [] a = 0 /\ b < 0 -> -90
      [] a = b /\ a > 0 -> 45
      [] a = b /\ a < 0 -> -135
      [] a = -b /\ b > 0 -> 135
      [] a = -b /\ b < 0 -> -45

\* np.degrees(np.arctan2(a, b)) in (-180, 180], for the directions whose
\* angle is a whole multiple of 45 degrees; arctan2(0, 0) is 0.
Atan2Deg(a, b) ==
    CASE a = 0 /\ b >= 0 -> 0
      [] a = 0 /\ b < 0 -> 180
      [] b = 0 /\ a > 0 -> 90
      [] b = 0 /\ a < 0 -> -90
      [] a = b /\ a > 0 -> 45
      [] a = b /\ a < 0 -> -135
      [] a = -b /\ a > 0 -> 135
      [] a = -b /\ a < 0 -> -45

\* (np.degrees(np.arctan2(dx, dy)) + 360.0) % 360.0
Bearing(dx, dy) == (Atan2Deg(dx, dy) + 360) % 360
Bearings(dx, dy) == [k \in 1..Len(dx) |-> Bearing(dx[k], dy[k])]

\* Mutant of SameGeomAdjacentSegment: turns also between segments of
\* different lines.
AdjacentAll(seg_parent) ==
    [k \in 1..(Len(seg_parent) - 1) |-> TRUE]

\* seg_parent[:-1] == seg_parent[1:]
SameGeomAdjacentSegment(seg_parent) ==
    [k \in 1..(Len(seg_parent) - 1) |-> seg_parent[k] = seg_parent[k + 1]]

\* Mutant of Turn: the plain difference, without the wrap-around.
TurnNoWrap(b0, b1) == Abs(b1 - b0)

\* np.abs(((b1 - b0 + 180.0) % 360.0) - 180.0)
Turn(b0, b1) == Abs(((b1 - b0 + 180) % 360) - 180)
Turns(b0, b1) == [k \in 1..Len(b0) |-> Turn(b0[k], b1[k])]

\* pd.Series(turn).groupby(pd.Series(parents_for_turn)).sum(): one entry per
\* distinct key, keys ascending.
RECURSIVE SortedKeys(_)
SortedKeys(S) ==
    IF S = {} THEN <<>>
    ELSE LET m == CHOOSE x \in S : \A y \in S : x <= y
         IN <<m>> \o SortedKeys(S \ {m})
GroupBySum(values, keys) ==
    LET ks == SortedKeys({keys[k] : k \in 1..Len(keys)})
    IN [index |-> ks,
        values |-> [j \in 1..Len(ks) |->
                      SumSeq(Masked(values, [k \in 1..Len(keys) |-> keys[k] = ks[j]]))]]

\* pd.Series(0.0, index=gdf.index)
ZeroSeries(idx) ==
    [kind |-> "Series", index |-> idx, values |-> [i \in 1..Len(idx) |-> 0]]
ValueError == [kind |-> "ValueError", index |-> <<>>, values |-> <<>>]

\* The positions .loc resolves a list of labels to: for every label in turn,
\* every row that carries it.
RECURSIVE LocIndexer(_, _, _)
LocIndexer(idx, labels, j) ==
    IF j > Len(labels) THEN <<>>
    ELSE Masked([i \in 1..Len(idx) |-> i], [i \in 1..Len(idx) |-> idx[i] = labels[j]])
         \o LocIndexer(idx, labels, j + 1)

\* values[indexer] = new, element by element, later entries overwriting
RECURSIVE SetAt(_, _, _, _)
SetAt(values, indexer, new, j) ==
    IF j > Len(indexer) THEN values
    ELSE SetAt([values EXCEPT ![indexer[j]] = new[j]], indexer, new, j + 1)

\* out.loc[labels] = new: pandas refuses a list-like indexer whose length
\* differs from the value's.
LocSetitem(series, labels, new) ==
    LET indexer == LocIndexer(series.index, labels, 1)
    IN IF Len(indexer) # Len(new) THEN ValueError
       ELSE [series EXCEPT !.values = SetAt(series.values, indexer, new, 1)]

\* The intermediate arrays of one call, lines 69-104.
Arrays(g) ==
    LET gc == GetCoordinates(g)
        coords == gc.coords
        parent_ix == gc.parent_ix
        same_geom_pair == SameGeomPair(parent_ix)
        c0 == Masked(Front(coords), same_geom_pair)
        c1 == Masked(Rest(coords), same_geom_pair)
        seg_parent0 == Masked(Front(parent_ix), same_geom_pair)
        dx0 == Dx(c0, c1)
        dy0 == Dy(c0, c1)
        nz == Nz(dx0, dy0)
        dx == Masked(dx0, nz)
        dy == Masked(dy0, nz)
        seg_parent == Masked(seg_parent0, nz)
        bearings == Bearings(dx, dy)
        adj == SameGeomAdjacentSegment(seg_parent)
    IN [coords |-> coords, same_geom_pair |-> same_geom_pair, nz |-> nz,
        adj |-> adj,
        b0 |-> Masked(Front(bearings), adj),
        b1 |-> Masked(Rest(bearings), adj),
        parents_for_turn |-> Masked(Rest(seg_parent), adj)]

\* Which return statement a call with these arrays reaches.
Path(a) ==
    IF Len(a.coords) < 2 THEN "few_coords"
    ELSE IF ~NpAny(a.same_geom_pair) THEN "no_same_geom_pair"
    ELSE IF ~NpAny(a.nz) THEN "no_non_zero"
    ELSE IF ~NpAny(a.adj) THEN "no_adjacent"
    ELSE "turns"
FewCoords(g) == Path(Arrays(g)) = "few_coords"
NoSameGeomPair(g) == Path(Arrays(g)) = "no_same_geom_pair"
NoNonZero(g) == Path(Arrays(g)) = "no_non_zero"
NoAdjacent(g) == Path(Arrays(g)) = "no_adjacent"
HasTurns(g) == Path(Arrays(g)) = "turns"

\* Mutant of Aggregate: the group keys (0-based positions) used as labels
\* without going through gdf.index.
AggregateByPosition(a, idx) ==
    LET s == GroupBySum(Turns(a.b0, a.b1), a.parents_for_turn)
        labels == [j \in 1..Len(s.index) |-> s.index[j] - 1]
    IN LocSetitem(ZeroSeries(idx), labels, s.values)

\* Lines 106-116: the turns, their per-geometry sums, and the result
\* aligned to gdf.index.
Aggregate(a, idx) ==
    LET s == GroupBySum(Turns(a.b0, a.b1), a.parents_for_turn)
        labels == [j \in 1..Len(s.index) |-> idx[s.index[j]]]
    IN LocSetitem(ZeroSeries(idx), labels, s.values)

\* The value of total_bearing_change_planar(gdf) for geometry column g and
\* index idx.
TotalBearingChangePlanar(g, idx) ==
    LET a == Arrays(g)
    IN IF Path(a) = "turns" THEN Aggregate(a, idx) ELSE ZeroSeries(idx)

\* ---------------------------------------------------- create_wiggly_line
\* Lengths, unit vectors and sines are fixed-point numbers in thousandths;
\* the parameter t is the exact fraction num/den.

\* floor(sqrt(v))
ISqrt(v, hi) == CHOOSE r \in 0..hi : r * r <= v /\ v < (r + 1) * (r + 1)

\* division truncated toward zero
TDiv(a, b) == IF a >= 0 THEN a \div b ELSE -((-a) \div b)

\* np.hypot(dx, dy), in thousandths
Hypot(dx, dy) == ISqrt((dx * dx + dy * dy) * 1000000, 1000 * (Abs(dx) + Abs(dy)))

\* Mutant of Linspace: the endpoint left out (np.linspace(0, 1, n, endpoint=False)).
LinspaceNoEndpoint(m) == [i \in 1..m |-> [num |-> i - 1, den |-> m]]

\* np.linspace(0, 1, n): n samples, both endpoints included; a single
\* sample is 0.
Linspace(m) ==
    [i \in 1..m |-> [num |-> i - 1, den |-> IF m = 1 THEN 1 ELSE m - 1]]

\* sin of k/d of a full turn for 0 <= k/d <= 1/2, in thousandths
\* (Bhaskara's rational approximation; exact at 0, 1/4 and 1/2 of a turn).
\* With x = 360k/d degrees, 4x(180 - x) / (40500 - x(180 - x)), reduced.
HalfSin(k, d) ==
    LET u == k * (d - 2 * k)
    IN (32000 * u) \div (5 * d * d - 8 * u)

\* np.sin(2 * np.pi * t * 3), in thousandths
Sin3(t) ==
    LET k == (3 * t.num) % t.den
    IN IF 2 * k <= t.den THEN HalfSin(k, t.den)
       ELSE -HalfSin(2 * k - t.den, 2 * t.den)

\* Mutant of Wiggle: the amplitude left out.
WiggleUnscaled(a, t) == Sin3(t)

\* wiggle = amp * np.sin(2 * np.pi * t * 3), in thousandths
Wiggle(a, t) == a * Sin3(t)

\* Lines 34-47 for one sample t: the base point x0 + t * dx plus the wiggle
\* along the normal, as <<x, y>> in units of 1 / (t.den * 1000000).
WigglyPoint(q0, q1, a, t) ==
    LET dx == q1[1] - q0[1]
        dy == q1[2] - q0[2]
        L == Hypot(dx, dy)
        ux == TDiv(dx * 1000000, L)
        uy == TDiv(dy * 1000000, L)
        nx == -uy
        ny == ux
    IN <<(q0[1] * t.den + t.num * dx) * 1000000 + Wiggle(a, t) * nx * t.den,
         (q0[2] * t.den + t.num * dy) * 1000000 + Wiggle(a, t) * ny * t.den>>

\* Mutant of ZeroLength: only the x displacement tested.
ZeroLengthX(q0, q1) == q1[1] - q0[1] = 0

\* L == 0 (line 30)
ZeroLength(q0, q1) == Hypot(q1[1] - q0[1], q1[2] - q0[2]) = 0

\* shapely.LineString(coords): a line needs no or at least two coordinates.
LineString(pts) ==
    IF Len(pts) = 1 THEN [kind |-> "GEOSException", pts |-> <<>>]
    ELSE [kind |-> "LineString", pts |-> pts]

NoLine == [kind |-> "none", pts |-> <<>>]

\* ------------------------------------------------------------ the inputs

\* The lines of lengths lens cut, in order, from the vertex sequence c.
RECURSIVE CutFrom(_, _, _, _)
CutFrom(c, lens, i, off) ==
    IF i > Len(lens) THEN <<>>
    ELSE <<SubSeq(c, off + 1, off + lens[i])>> \o CutFrom(c, lens, i + 1, off + lens[i])

\* gdf is a geometry column of at most MaxLines lines and MaxVerts vertices
\* in all; a line may be empty or a single point.
GeometryInput ==
    \E k \in 0..MaxLines :
        \E lens \in {l \in [1..k -> 0..MaxVerts] : SumSeq(l) <= MaxVerts} :
            \E c \in [1..SumSeq(lens) -> Pts] :
                gdf = CutFrom(c, lens, 1, 0)

\* A default RangeIndex, and the same identifiers in descending order.
UniqueIndexes(k) == {[i \in 1..k |-> i - 1], [i \in 1..k |-> k - i]}
\* Every index over the identifiers 0..k-1, duplicates included.
AnyIndexes(k) == [1..k -> 0..(k - 1)]

IdleWiggly ==
    /\ p0 = <<0, 0>> /\ p1 = <<0, 0>> /\ n = 0 /\ amp = 0
    /\ ts = <<>> /\ line = NoLine
IdleTurn == b0in = 0 /\ b1in = 0 /\ turn = -1
IdleAggregator ==
    /\ gdf = <<>> /\ index = <<>>
    /\ out = [kind |-> "none", index |-> <<>>, values |-> <<>>]

\* A collection as the data model defines it: one unique identifier per row.
Init ==
    /\ GeometryInput
    /\ index \in UniqueIndexes(Len(gdf))
    /\ out = [kind |-> "none", index |-> <<>>, values |-> <<>>]
    /\ pc = "call"
    /\ IdleWiggly /\ IdleTurn

\* A collection whose index may repeat identifiers.
InitIds ==
    /\ GeometryInput
    /\ index \in AnyIndexes(Len(gdf))
    /\ out = [kind |-> "none", index |-> <<>>, values |-> <<>>]
    /\ pc = "call"
    /\ IdleWiggly /\ IdleTurn

InitWiggly ==
    /\ p0 \in Pts /\ p1 \in Pts
    /\ n \in 1..MaxN
    /\ amp \in 0..MaxAmp
    /\ ts = <<>> /\ line = NoLine
    /\ pc = "call"
    /\ IdleAggregator /\ IdleTurn

InitTurn ==
    /\ b0in \in 0..359 /\ b1in \in 0..359
    /\ turn = -1
    /\ pc = "call"
    /\ IdleAggregator /\ IdleWiggly

\* ----------------------------------------------------------- the actions
aggVars == <<gdf, index, out>>
wigVars == <<p0, p1, n, amp, ts, line>>
turnVars == <<b0in, b1in, turn>>

\* lines 70-71
ReturnFewCoords ==
    /\ pc = "call" /\ FewCoords(gdf)
    /\ out' = ZeroSeries(index)
    /\ pc' = "done"
    /\ UNCHANGED <<gdf, index, wigVars, turnVars>>

\* lines 74-76
ReturnNoSameGeomPair ==
    /\ pc = "call" /\ NoSameGeomPair(gdf)
    /\ out' = ZeroSeries(index)
    /\ pc' = "done"
    /\ UNCHANGED <<gdf, index, wigVars, turnVars>>

\* lines 87-89
ReturnNoNonZero ==
    /\ pc = "call" /\ NoNonZero(gdf)
    /\ out' = ZeroSeries(index)
    /\ pc' = "done"
    /\ UNCHANGED <<gdf, index, wigVars, turnVars>>

\* lines 96-100
ReturnNoAdjacent ==
    /\ pc = "call" /\ NoAdjacent(gdf)
    /\ out' = ZeroSeries(index)
    /\ pc' = "done"
    /\ UNCHANGED <<gdf, index, wigVars, turnVars>>

\* lines 102-116
ReturnAggregated ==
    /\ pc = "call" /\ HasTurns(gdf)
    /\ out' = Aggregate(Arrays(gdf), index)
    /\ pc' = "done"
    /\ UNCHANGED <<gdf, index, wigVars, turnVars>>

Next ==
    \/ ReturnFewCoords
    \/ ReturnNoSameGeomPair
    \/ ReturnNoNonZero
    \/ ReturnNoAdjacent
    \/ ReturnAggregated

\* lines 26-31
RaisePointsMustBeDifferent ==
    /\ pc = "call" /\ ZeroLength(p0, p1)
    /\ line' = [kind |-> "ValueError: Points must be different", pts |-> <<>>]
    /\ pc' = "done"
    /\ UNCHANGED <<p0, p1, n, amp, ts, aggVars, turnVars>>

\* lines 34-49
ReturnWigglyLine ==
    /\ pc = "call" /\ ~ZeroLength(p0, p1)
    /\ ts' = Linspace(n)
    /\ line' = LineString([i \in 1..n |-> WigglyPoint(p0, p1, amp, Linspace(n)[i])])
    /\ pc' = "done"
    /\ UNCHANGED <<p0, p1, n, amp, aggVars, turnVars>>

NextWiggly ==
    \/ RaisePointsMustBeDifferent
    \/ ReturnWigglyLine

\* line 108, for one pair of bearings
ComputeTurn ==
    /\ pc = "call"
    /\ turn' = Turn(b0in, b1in)
    /\ pc' = "done"
    /\ UNCHANGED <<b0in, b1in, aggVars, wigVars>>

NextTurn == ComputeTurn

Spec == Init /\ [][Next]_vars
SpecIds == InitIds /\ [][Next]_vars
SpecWiggly == InitWiggly /\ [][NextWiggly]_vars
SpecTurn == InitTurn /\ [][NextTurn]_vars

\* ------------------------------------------------- reference definitions
\* What the claims compare the code with: one line taken on its own.

\* The displacements of the non-zero-length segments of a line, in vertex order.
RECURSIVE NzSegs(_, _)
NzSegs(l, k) ==
    IF k >= Len(l) THEN <<>>
    ELSE (IF l[k] = l[k + 1] THEN <<>>
          ELSE <<<<l[k + 1][1] - l[k][1], l[k + 1][2] - l[k][2]>>>>)
         \o NzSegs(l, k + 1)

\* The smallest unsigned angular difference of two bearings.
MinAngle(a, b) == Min(Abs(b - a), 360 - Abs(b - a))

\* The sum of the turns between adjacent non-zero-length segments of a line.
RowTotal(l) ==
    LET segs == NzSegs(l, 1)
    IN SumSeq([k \in 1..(Len(segs) - 1) |->
                 MinAngle(Bearing(segs[k][1], segs[k][2]),
                          Bearing(segs[k + 1][1], segs[k + 1][2]))])

\* A line with fewer than 2 coordinates or whose points are all identical.
Degenerate(l) == Len(l) < 2 \/ \A k \in 1..Len(l) : l[k] = l[1]

\* The collection with vertex k of line i repeated immediately after itself.
InsertDup(g, i, k) ==
    [g EXCEPT ![i] = SubSeq(g[i], 1, k) \o <<g[i][k]>> \o SubSeq(g[i], k + 1, Len(g[i]))]

Returned == pc = "done" /\ out.kind = "Series"

\* ------------------------------------------------------------ the claims

\* C1: every line's total is the sum of the turns between the adjacent
\* non-zero-length segments of that same line, in vertex order; nothing that
\* straddles two lines contributes, and a line with fewer than two
\* non-zero-length segments totals 0.
C1_TotalIsSumOfOwnTurns ==
    pc = "done" =>
        /\ out.kind = "Series"
        /\ Len(out.values) = Len(gdf)
        /\ \A i \in 1..Len(gdf) :
              /\ out.values[i] = RowTotal(gdf[i])
              /\ Len(NzSegs(gdf[i], 1)) < 2 => out.values[i] = 0
\* Two lines whose facing end segments differ in direction: the first turns
\* by 90, the second is a straight 2-point line and totals 0.
C1_Witness ==
    /\ Returned /\ Len(gdf) = 2
    /\ gdf[1] = <<<<0, 0>>, <<0, 1>>, <<1, 1>>>>
    /\ out.values = <<90, 0>>

\* C2: on every return path the output carries exactly the input's identifiers
\* in the input's order, duplicates included, and each row holds its own sum.
C2_RowsMirrorInput ==
    pc = "done" =>
        /\ out.kind = "Series"
        /\ out.index = index
        /\ \A i \in 1..Len(gdf) : out.values[i] = RowTotal(gdf[i])

\* C3: for bearings in [0, 360) the turn lies in [0, 180], is the smallest
\* unsigned angular difference, and is the same in either order; 350 then 10
\* gives 20.
C3_TurnIsSmallestAngle ==
    pc = "done" =>
        /\ turn \in 0..180
        /\ turn = MinAngle(b0in, b1in)
        /\ Turn(b1in, b0in) = turn
        /\ (b0in = 350 /\ b1in = 10) => turn = 20
C3_Witness == pc = "done" /\ b0in = 350 /\ b1in = 10 /\ turn = 20

\* C4: the call never raises on degenerate geometry: it returns a result, and
\* every line with fewer than 2 coordinates or with only identical points
\* maps to 0.
C4_DegenerateIsZero ==
    pc = "done" =>
        /\ out.kind = "Series"
        /\ \A i \in 1..Len(gdf) : Degenerate(gdf[i]) => out.values[i] = 0
\* A single-point line beside a line that turns, on the aggregating path.
C4_Witness ==
    /\ Returned /\ Len(gdf) = 2 /\ HasTurns(gdf)
    /\ Len(gdf[1]) = 1 /\ out.values[1] = 0 /\ out.values[2] = 90

FracEq(a, num, den) == a.num * den = num * a.den
UniformFrom0To1(t) ==
    /\ FracEq(t[1], 0, 1)
    /\ FracEq(t[Len(t)], 1, 1)
    /\ \A i \in 1..(Len(t) - 1) :
          /\ t[i].num * t[i + 1].den < t[i + 1].num * t[i].den
          /\ (t[i + 1].num * t[i].den - t[i].num * t[i + 1].den) * (Len(t) - 1)
                = t[i].den * t[i + 1].den

C7_StraightWhenAmplitudeZero ==
    (pc = "done" /\ amp = 0 /\ line.kind = "LineString") =>
        LET m == Len(line.pts)
            scale == ts[1].den * 1000000
        IN /\ m = n
           /\ \A i \in 1..m :
                 /\ ts[i].num >= 0 /\ ts[i].num <= ts[i].den
                 /\ line.pts[i][1] * ts[i].den
                       = (p0[1] * ts[i].den + ts[i].num * (p1[1] - p0[1])) * scale
                 /\ line.pts[i][2] * ts[i].den
                       = (p0[2] * ts[i].den + ts[i].num * (p1[2] - p0[2])) * scale
           /\ \A i \in 1..(m - 1) :
                 ts[i].num * ts[i + 1].den < ts[i + 1].num * ts[i].den
           /\ line.pts[1] = <<p0[1] * scale, p0[2] * scale>>
           /\ line.pts[m] = <<p1[1] * scale, p1[2] * scale>>
C7_Witness ==
    /\ pc = "done" /\ amp = 0 /\ n = 4 /\ p0 = <<0, 1>> /\ p1 = <<1, 0>>
    /\ line.kind = "LineString"
    /\ line.pts[2] = <<1000000, 2000000>>

\* C8: a bearing is clockwise from North in [0, 360): North 0, East 90,
\* South 180, West 270; a line going North then East totals 90 and a line
\* that reverses exactly totals 180.
C8_BearingClockwiseFromNorth ==
    pc = "done" =>
        \A i \in 1..Len(gdf) :
            LET segs == NzSegs(gdf[i], 1)
                north(sg) == sg[1] = 0 /\ sg[2] > 0
                east(sg) == sg[1] > 0 /\ sg[2] = 0
                south(sg) == sg[1] = 0 /\ sg[2] < 0
                west(sg) == sg[1] < 0 /\ sg[2] = 0
            IN /\ \A k \in 1..Len(segs) :
                     /\ Bearing(segs[k][1], segs[k][2]) \in 0..359
                     /\ north(segs[k]) => Bearing(segs[k][1], segs[k][2]) = 0
                     /\ east(segs[k]) => Bearing(segs[k][1], segs[k][2]) = 90
                     /\ south(segs[k]) => Bearing(segs[k][1], segs[k][2]) = 180
                     /\ west(segs[k]) => Bearing(segs[k][1], segs[k][2]) = 270
               /\ (Len(gdf[i]) = 3 /\ Len(segs) = 2 /\ north(segs[1]) /\ east(segs[2]))
                     => (out.kind = "Series" /\ out.values[i] = 90)
               /\ (Len(gdf[i]) = 3 /\ Len(segs) = 2
                     /\ segs[2] = <<-segs[1][1], -segs[1][2]>>)
                     => (out.kind = "Series" /\ out.values[i] = 180)
C8_Witness ==
    /\ Returned /\ Len(gdf) = 2
    /\ gdf[1] = <<<<0, 0>>, <<0, 1>>, <<1, 1>>>> /\ out.values[1] = 90
C8_WitnessReversal ==
    /\ Returned /\ Len(gdf) = 1
    /\ gdf[1] = <<<<1, 0>>, <<0, 1>>, <<1, 0>>>> /\ out.values[1] = 180

\* C9: repeating any vertex of any line immediately after itself changes no
\* line's total: A,B,B,C totals the same as A,B,C.
C9_DuplicateVertexChangesNothing ==
    pc = "done" =>
        \A i \in 1..Len(gdf) : \A k \in 1..Len(gdf[i]) :
            TotalBearingChangePlanar(InsertDup(gdf, i, k), index) = out
\* A line A,B,B,C that turns at the repeated vertex.
C9_Witness ==
    /\ Returned /\ Len(gdf) = 1
    /\ gdf[1] = <<<<0, 0>>, <<0, 1>>, <<0, 1>>, <<1, 1>>>>
    /\ out.values = <<90>>

\* C10: the total reported for a line is the total reported when that line is
\* the only member of a collection, whatever lines precede or follow it.
C10_TotalOfLineAlone ==
    Returned =>
        \A i \in 1..Len(gdf) :
            LET alone == TotalBearingChangePlanar(<<gdf[i]>>, <<index[i]>>)
            IN alone.kind = "Series" /\ out.values[i] = alone.values[1]
\* A 2-point line followed by a different 2-point line: the vertices where
\* they meet would form a turn if the lines were one.
C10_Witness ==
    /\ Returned /\ Len(gdf) = 2
    /\ gdf[1] = <<<<0, 0>>, <<0, 1>>>> /\ gdf[2] = <<<<1, 1>>, <<1, 0>>>>
    /\ out.values = <<0, 0>>

====
